---- MODULE Spec2Model ----
(***************************************************************************)
(* Request admission pipeline of the Stimula REST controller for Odoo:     *)
(* exception_handler / authentication_handler / connection_handler around  *)
(* a route handler, the per-database secret resolver get_or_set_param and  *)
(* the token service the controller is built on.                           *)
(***************************************************************************)
EXTENDS Integers, Sequences, FiniteSets, TLC

\* ------------------------------------------------------------------ bounds
\* number of requests the host dispatches in one run
MaxRequests == 2
\* number of clock steps in one run
MaxTicks == 1
\* seconds that pass in one clock step
TickStep == 86400

\* ------------------------------------------------------------- the world
\* worker threads of the host, one request in flight on each
Reqs == {"r1", "r2"}
\* the databases (tenants) the host serves
Tenants == {"t1", "t2"}
\* the logins known in every database, and the uid of each (uid 1 is the
\* superuser)
Users == {"alice"}
UidOf == [alice |-> 2]
GoodPassword == "good"
Passwords == {"good", "bad"}
\* characters random.choices draws from, and the keys a secret can be
SecretChars == {1, 2}
Secrets == {<<c>> : c \in SecretChars}
\* the database of a request served from a single-database host
BoundDatabase == "t1"
\* a key nobody stores: what a forger signs with
BogusKey == <<0>>

\* ---------------------------------------------------- text of an integer
\* str(n) and int(s) on decimal digit sequences, as ir.config_parameter
\* stores every value as text
RECURSIVE str(_)
str(n) == IF n < 10 THEN <<n>> ELSE Append(str(n \div 10), n % 10)

RECURSIVE int(_)
int(s) == IF Len(s) = 0 THEN 0
          ELSE 10 * int(SubSeq(s, 1, Len(s) - 1)) + s[Len(s)]

\* ------------------------------------------------------ the config store
secret_key == "stimula_odoo.secret_key"
token_lifetime == "stimula_odoo.token_lifetime"
Keys == {secret_key, token_lifetime}
\* get_param of a key that is not set is falsy
Absent == <<>>
\* the default lifetime the controller generates
DefaultLifetime == 86400

\* ----------------------------------------------------------------- tokens
NoPayload == [database |-> "", uid |-> 0, username |-> "", password |-> "", exp |-> 0]

\* HS256 over the payload: only the same key and the same payload give the
\* same signature
Sign(payload, key) == [key |-> key, over |-> payload]

Encode(payload, key) == [wf |-> TRUE, payload |-> payload, sig |-> Sign(payload, key)]

\* a string that is no token
Malformed == [wf |-> FALSE, payload |-> NoPayload, sig |-> Sign(NoPayload, Absent)]

\* a token a client made up for database db, signed with a key of its own
Forged(db) ==
    Encode([database |-> db, uid |-> 1, username |-> "admin", password |-> "",
            exp |-> (MaxTicks + 1) * TickStep + DefaultLifetime], BogusKey)

\* an issued token whose payload a client edited, keeping the signature
Tamper(t) == [t EXCEPT !.payload.uid = 1]


\* ------------------------------------------------------------- exceptions
\* The exception objects a request can raise. An object is named after its
\* class, except the engine failures raised "from" another exception: from
\* an AccessDenied, from an engine failure that was, from itself, and two
\* that are each the cause of the other.
EngineWrapped == "EngineError from AccessDenied"
EngineWrappedTwice == "EngineError from EngineError from AccessDenied"
SelfCaused == "EngineError from itself"
CycleA == "EngineError A from B"
CycleB == "EngineError B from A"
EngineChained == {EngineWrapped, EngineWrappedTwice, SelfCaused, CycleA, CycleB}
ExcObjs == {"KeyError", "DecodeError", "InvalidSignatureError", "ExpiredSignatureError",
            "AccessDenied", "OperationalError", "IntegrityError", "Exception",
            "AssertionError", "ValueError", "NameError", "EngineError"}
           \cup EngineChained
None == "None"

\* type(e).__name__
TypeName(e) == IF e \in EngineChained THEN "EngineError" ELSE e

\* e.__cause__
Cause(e) ==
    CASE e = EngineWrapped -> "AccessDenied"
      [] e = EngineWrappedTwice -> EngineWrapped
      [] e = SelfCaused -> SelfCaused
      [] e = CycleA -> CycleB
      [] e = CycleB -> CycleA
      [] OTHER -> None

\* str(e), as its lines
Message(e) ==
    CASE e = "Exception" -> <<"No database provided. Either provide a database parameter or run this request from a single database configuration.">>
      [] e = "KeyError" -> <<"HTTP_AUTHORIZATION">>
      [] e = "AccessDenied" -> <<"Access Denied">>
      [] e = "IntegrityError" -> <<"duplicate key value violates unique constraint", "DETAIL: Key (key) already exists.">>
      [] e \in {CycleA, CycleB} -> <<e>>
      [] OTHER -> <<TypeName(e)>>

\* the classes an object of class cls is an instance of
Mro(cls) ==
    CASE cls = "InvalidSignatureError" -> {"InvalidSignatureError", "DecodeError", "InvalidTokenError", "PyJWTError", "Exception"}
      [] cls = "ExpiredSignatureError" -> {"ExpiredSignatureError", "InvalidTokenError", "PyJWTError", "Exception"}
      [] cls = "DecodeError" -> {"DecodeError", "InvalidTokenError", "PyJWTError", "Exception"}
      [] cls = "KeyError" -> {"KeyError", "LookupError", "Exception"}
      [] OTHER -> {cls, "Exception"}

isinstance(e, cls) == cls \in Mro(TypeName(e))

\* a handler that reports the exception it caught
has_cause_ignored(e) == FALSE

\* exception_handler: the loop condition of "find root cause"
has_cause(e) == Cause(e) # None /\ Cause(e) # e

\* exception_handler: error_object
error_object(e) ==
    [msg |-> Message(e),
     short |-> IF Len(Message(e)) = 0 THEN "" ELSE Head(Message(e)),
     type |-> TypeName(e),
     trace |-> "traceback"]

\* exception_handler: error_status
error_status(e) ==
    IF isinstance(e, "AccessDenied") \/ isinstance(e, "InvalidSignatureError") THEN 401 ELSE 400

\* --------------------------------------------------------------- requests
\* the Authorization header: absent, or a string read as scheme and rest
NoHeader == [present |-> FALSE, scheme |-> "", token |-> Malformed]
EmptyHeader == [present |-> TRUE, scheme |-> "", token |-> Malformed]
BasicHeader == [present |-> TRUE, scheme |-> "Basic", token |-> Malformed]
Bearer(t) == [present |-> TRUE, scheme |-> "Bearer", token |-> t]

\* authentication_handler: "if not authorization_header"
header_missing(h) == h.scheme = ""

\* a prefix test that is too short: startswith('B')
startswith_B(h) == h.scheme \in {"Bearer", "Basic"}

\* authentication_handler: authorization_header.startswith('Bearer ')
startswith_Bearer(h) == h.scheme = "Bearer"

\* authentication_handler: authorization_header[len('Bearer '):]
extract_token(h) == h.token

NoPost == [database |-> "", dbname |-> "", username |-> "", password |-> ""]

\* the query string of a request: the text of each parameter given
FlagNames == {"insert", "update", "delete", "execute", "commit"}
NoQuery == <<>>

\* query.get(name, default), and query.get(name)
get_or(query, name, default) == IF name \in DOMAIN query THEN query[name] ELSE default
get(query, name) == get_or(query, name, None)
\* the body of a request, as its lines, and an uploaded file: the form
\* field it was sent as, its filename and its content
NoBody == <<>>
NoFiles == <<>>
NoReq == [route |-> "", header |-> NoHeader, post |-> NoPost, query |-> NoQuery,
          body |-> NoBody, files |-> NoFiles]
\* e: the variable e of exception_handler once the search for the root
\* cause has moved it off the exception caught
NoLoc == [database |-> "", key |-> "", pending |-> Absent, ret |-> "",
          secret |-> Absent, value |-> Absent, uid |-> 0, e |-> None]
NoResp == [status |-> 0, body |-> "none", error |-> error_object("Exception"), token |-> Malformed]
\* env: the cursor, its database and the uid the engine works with
NoEnv == [cr |-> "none", database |-> "", uid |-> 0]
\* an operation of the mapping engine and the arguments it is called with:
\* none called yet
NoOp == [name |-> "none", env |-> NoEnv]

\* a call of operation name with no more than a header
Op(name, header) == [name |-> name, header |-> header, env |-> NoEnv]

\* a call of a post operation
PostOp(name, header, skiprows, flags, tables, contents, context, substitutions) ==
    [name |-> name, header |-> header, skiprows |-> skiprows, flags |-> flags,
     tables |-> tables, contents |-> contents, context |-> context,
     substitutions |-> substitutions, env |-> NoEnv]

\* cursors: cursors get_or_set_param opened; tokenCalls: calls of
\* validate_token; verdict, verifiedAt: how and when validate_token ended;
\* first: the secret was absent when asked for; secret: what get_secret_key
\* returned; stored: the secret in the store when it returned; contexts:
\* cursors connection_handler opened; ownBody: a stage other than
\* exception_handler made the error response; established: how far
\* connection_handler got; caught: the exception exception_handler caught;
\* left: the exceptions its search for the root cause has moved on from;
\* found: whether the first get_param of the last get_or_set_param
\* returned a value; op: the last call of the mapping engine; persisted:
\* the keys whose value a get_or_set_param of the request committed;
\* failed: the key whose get_or_set_param could not reach the database;
\* authCalls: calls of Auth.authenticate, which verifies the credentials
NoLog == [cursors |-> 0, tokenCalls |-> 0, verdict |-> "none", verifiedAt |-> 0,
          first |-> FALSE, secret |-> Absent, stored |-> Absent, handlerCalls |-> 0,
          engineCalls |-> 0, envelopes |-> 0, ownBody |-> FALSE, contexts |-> 0,
          established |-> "none", caught |-> None, left |-> {}, found |-> "none", op |-> NoOp,
          persisted |-> {}, failed |-> None, authCalls |-> 0]
\* cnx_context: registry is the database of the registry stored in it, cr
\* the cursor taken from that registry
NoContext == [database |-> "", uid |-> 0, username |-> "", registry |-> "", cr |-> "none"]

VARIABLES
    pc,           \* where each request is in the pipeline
    req,          \* the request each worker serves: route, header, form
    loc,          \* locals of the call in progress
    exc,          \* the exception propagating to exception_handler
    resp,         \* the response of each request
    log,          \* what happened in each request so far
    cnx_context,  \* stimula.service.context.cnx_context, per worker thread
    params,       \* ir.config_parameter of each database
    now,          \* the clock, in seconds
    issued,       \* the tokens handed to clients, with what they were issued for
    changed,      \* per database: how its stored secret was replaced, if it was
    started,      \* requests dispatched so far
    openHandles,  \* cursors of connection_handler that are open
    openCursors   \* cursors of get_or_set_param that are open

vars == <<pc, req, loc, exc, resp, log, cnx_context, params, now, issued, changed,
          started, openHandles, openCursors>>

\* the parameters of a database nobody authenticated against yet, and of
\* one somebody did
Unset == [k \in Keys |-> Absent]
Provisioned == [k \in Keys |-> IF k = secret_key THEN <<1>> ELSE str(DefaultLifetime)]
Fresh == [t \in Tenants |-> Unset]

Init ==
    /\ pc = [r \in Reqs |-> "idle"]
    /\ req = [r \in Reqs |-> NoReq]
    /\ loc = [r \in Reqs |-> NoLoc]
    /\ exc = [r \in Reqs |-> None]
    /\ resp = [r \in Reqs |-> NoResp]
    /\ log = [r \in Reqs |-> NoLog]
    /\ cnx_context = [r \in Reqs |-> NoContext]
    /\ params \in {Fresh, [Fresh EXCEPT ![BoundDatabase] = Provisioned]}
    /\ now = 0
    /\ issued = {}
    /\ changed = [t \in Tenants |-> "no"]
    /\ started = 0
    /\ openHandles = 0
    /\ openCursors = 0

IssuedTokens == {g.token : g \in issued}

\* what a client can put after "Bearer "
Presentable ==
    IssuedTokens \cup {Tamper(t) : t \in IssuedTokens} \cup {Malformed}
        \cup {Forged(BoundDatabase)}

Headers == {NoHeader, EmptyHeader, BasicHeader} \cup {Bearer(t) : t \in Presentable}


\* ------------------------------------------------------------- dispatching
\* a worker takes a request to a bearer route; exception_handler calls the
\* authentication stage
DispatchBearer(r) ==
    /\ pc[r] \in {"idle", "done"}
    /\ started < MaxRequests
    /\ \E h \in Headers :
         req' = [req EXCEPT ![r] = [NoReq EXCEPT !.route = "tables", !.header = h]]
    /\ pc' = [pc EXCEPT ![r] = "authentication_handler"]
    /\ started' = started + 1
    /\ loc' = [loc EXCEPT ![r] = NoLoc]
    /\ exc' = [exc EXCEPT ![r] = None]
    /\ resp' = [resp EXCEPT ![r] = NoResp]
    /\ log' = [log EXCEPT ![r] = NoLog]
    /\ UNCHANGED <<cnx_context, params, now, issued, changed, openHandles, openCursors>>

\* the forms a client can post to /auth: a database, or none with the
\* request bound to a database (dbname) or to none
Posts ==
    {[database |-> d, dbname |-> "", username |-> u, password |-> p] :
        d \in Tenants, u \in Users, p \in Passwords}
    \cup {[database |-> "", dbname |-> b, username |-> u, password |-> GoodPassword] :
        b \in {"", BoundDatabase}, u \in Users}

\* a worker takes a request to POST /auth; exception_handler calls authenticate
DispatchAuth(r) ==
    /\ pc[r] \in {"idle", "done"}
    /\ started < MaxRequests
    /\ \E f \in Posts :
         req' = [req EXCEPT ![r] = [NoReq EXCEPT !.route = "auth", !.post = f]]
    /\ pc' = [pc EXCEPT ![r] = "authenticate"]
    /\ started' = started + 1
    /\ loc' = [loc EXCEPT ![r] = NoLoc]
    /\ exc' = [exc EXCEPT ![r] = None]
    /\ resp' = [resp EXCEPT ![r] = NoResp]
    /\ log' = [log EXCEPT ![r] = NoLog]
    /\ UNCHANGED <<cnx_context, params, now, issued, changed, openHandles, openCursors>>

\* ------------------------------------------------------- exception_handler
\* an exception leaves the wrapped function
Raise(r, e) ==
    /\ pc' = [pc EXCEPT ![r] = "except"]
    /\ exc' = [exc EXCEPT ![r] = e]

\* the outermost wrapper returns response: the request is over and the
\* locals of its calls are gone
Return(r, response) ==
    /\ resp' = [resp EXCEPT ![r] = response]
    /\ pc' = [pc EXCEPT ![r] = "done"]
    /\ loc' = [loc EXCEPT ![r] = NoLoc]
    /\ exc' = [exc EXCEPT ![r] = None]

\* "except Exception as e": e is the exception caught until the loop moves it
e_of(r) == IF loc[r].e = None THEN exc[r] ELSE loc[r].e

\* "while e.__cause__ is not None and e.__cause__ is not e: e = e.__cause__"
exception_handler_unwind(r) ==
    /\ pc[r] = "except"
    /\ has_cause(e_of(r))
    /\ loc' = [loc EXCEPT ![r].e = Cause(e_of(r))]
    /\ log' = [log EXCEPT ![r].left = @ \cup {e_of(r)}]
    /\ UNCHANGED <<pc, req, exc, resp, cnx_context, params, now, issued, changed,
                   started, openHandles, openCursors>>

\* the response built from the exception the loop ended at
exception_handler(r) ==
    /\ pc[r] = "except"
    /\ ~has_cause(e_of(r))
    /\ Return(r, [status |-> error_status(e_of(r)), body |-> "error_object",
                  error |-> error_object(e_of(r)), token |-> Malformed])
    /\ log' = [log EXCEPT ![r].envelopes = @ + 1, ![r].caught = exc[r]]
    /\ UNCHANGED <<req, cnx_context, params, now, issued, changed,
                   started, openHandles, openCursors>>

\* ---------------------------------------------------- authentication_handler
\* the value authentication_handler returns for a header it rejects: a
\* text and a status, not a response of exception_handler
rejected(text) == [status |-> 401, body |-> text, error |-> NoResp.error, token |-> Malformed]

\* the header checks, up to the call of validate_token
authentication_handler(r) ==
    /\ pc[r] = "authentication_handler"
    /\ LET h == req[r].header IN
       IF ~h.present
       THEN \* headers['Authorization'] of a request without the header
            /\ Raise(r, "KeyError")
            /\ UNCHANGED <<resp, log, loc>>
       ELSE IF header_missing(h)
       THEN /\ Return(r, rejected("Authorization header missing"))
            /\ log' = [log EXCEPT ![r].ownBody = TRUE]
       ELSE IF ~startswith_Bearer(h)
       THEN /\ Return(r, rejected("Invalid Authorization header format"))
            /\ log' = [log EXCEPT ![r].ownBody = TRUE]
       ELSE /\ pc' = [pc EXCEPT ![r] = "validate_token"]
            /\ log' = [log EXCEPT ![r].tokenCalls = @ + 1]
            /\ UNCHANGED <<exc, resp, loc>>
    /\ UNCHANGED <<req, cnx_context, params, now, issued, changed,
                   started, openHandles, openCursors>>


\* ---------------------------------------------------------- secret resolver
\* get_secret_key / get_token_lifetime: the values default_generator can give
default_generator(key) ==
    IF key = secret_key THEN Secrets ELSE {DefaultLifetime}

\* the text ir.config_parameter keeps for a value
stored_text(key, value) == IF key = token_lifetime THEN str(value) ELSE value

\* config_params.get_param(key) inside a cursor: the cursor's own write,
\* else what is committed
get_param(database, key, pending) ==
    IF pending # Absent THEN pending ELSE params[database][key]

\* another cursor holds an uncommitted write of the key
locked(r, database, key) ==
    \E o \in Reqs \ {r} :
        /\ pc[o] = "return_param"
        /\ loc[o].database = database /\ loc[o].key = key
        /\ loc[o].pending # Absent

\* a secret fixed when the controller is built, whatever the store holds
get_secret_key_fixed(database, value) == <<1>>

\* get_secret_key(database), given what get_or_set_param returns for the key:
\* the controller hands the token service this function, not a secret
get_secret_key(database, value) == value

\* the stored seconds taken for a lifetime in milliseconds
get_token_lifetime_millis(database, value) == int(value) * 1000

\* get_token_lifetime(database), given what get_or_set_param returns
get_token_lifetime(database, value) == int(value)

\* the call get_or_set_param(database, key, default_generator), returning to ret
call_get_or_set_param(r, database, key, ret) ==
    /\ pc' = [pc EXCEPT ![r] = "get_or_set_param"]
    /\ loc' = [loc EXCEPT ![r].database = database, ![r].key = key,
                          ![r].pending = Absent, ![r].ret = ret]

\* a resolver that generates and sets a default at every call
needs_default_always(value) == TRUE

\* get_or_set_param: "if not config_params.get_param(key)"
needs_default(value) == value = Absent

\* a cursor that is left open when its block is left
cursor_exit_leaked(open) == open

\* "with registry_instance.cursor() as cr": leaving the block, by return or
\* by an exception, closes the cursor; open is the number of open cursors
cursor_exit(open) == open - 1

\* registry(database).cursor() and the first get_param
get_or_set_param(r) ==
    /\ pc[r] = "get_or_set_param"
    /\ openCursors' = openCursors + 1
    /\ LET value == get_param(loc[r].database, loc[r].key, Absent)
           absent == needs_default(value)
       IN
         /\ log' = [log EXCEPT ![r].cursors = @ + 1,
                               ![r].found = IF value = Absent THEN "absent" ELSE "stored",
                               ![r].first = IF loc[r].key = secret_key THEN absent ELSE @]
         /\ pc' = [pc EXCEPT ![r] = IF absent THEN "set_param" ELSE "return_param"]
    /\ UNCHANGED <<req, loc, exc, resp, cnx_context, params, now, issued, changed,
                   started, openHandles>>

\* default_generator() and set_param(key, default). A key another cursor
\* created meanwhile is either a unique violation or, when this cursor's
\* search sees the row, overwritten.
set_param(r) ==
    /\ pc[r] = "set_param"
    /\ ~locked(r, loc[r].database, loc[r].key)
    /\ \E default \in default_generator(loc[r].key) :
         \/ /\ loc' = [loc EXCEPT ![r].pending = stored_text(loc[r].key, default)]
            /\ pc' = [pc EXCEPT ![r] = "return_param"]
            /\ UNCHANGED <<exc, openCursors>>
         \/ /\ params[loc[r].database][loc[r].key] # Absent
            /\ Raise(r, "IntegrityError")
            /\ openCursors' = cursor_exit(openCursors)
            /\ UNCHANGED loc
    /\ UNCHANGED <<req, resp, log, cnx_context, params, now, issued, changed,
                   started, openHandles>>

\* "return config_params.get_param(key)" and the end of the with block:
\* the cursor commits and closes
return_param(r) ==
    /\ pc[r] = "return_param"
    /\ LET db == loc[r].database
           key == loc[r].key
           value == get_param(db, key, loc[r].pending)
           written == loc[r].pending # Absent
       IN /\ loc' = [loc EXCEPT ![r].value = value, ![r].pending = Absent]
          /\ params' = IF written THEN [params EXCEPT ![db][key] = loc[r].pending]
                       ELSE params
          /\ changed' = [changed EXCEPT ![db] =
                           IF written /\ key = secret_key /\ params[db][key] # Absent
                              /\ params[db][key] # loc[r].pending
                           THEN "overwritten" ELSE @]
          /\ log' = [log EXCEPT ![r].stored =
                           IF key = secret_key THEN params'[db][key] ELSE @,
                                ![r].secret =
                           IF key = secret_key THEN get_secret_key(db, value) ELSE @,
                                ![r].persisted = IF written THEN @ \cup {key} ELSE @]
    /\ openCursors' = cursor_exit(openCursors)
    /\ pc' = [pc EXCEPT ![r] = loc[r].ret]
    /\ UNCHANGED <<req, exc, resp, cnx_context, now, issued, started, openHandles>>

\* the database cannot be reached: registry(database) or .cursor() raise
\* before there is a cursor, a statement inside the with block raises and
\* the block rolls the cursor back and closes it
get_or_set_param_unreachable(r) ==
    /\ pc[r] \in {"get_or_set_param", "set_param", "return_param"}
    /\ Raise(r, "OperationalError")
    /\ loc' = [loc EXCEPT ![r].pending = Absent]
    /\ log' = [log EXCEPT ![r].failed = loc[r].key]
    /\ openCursors' = IF pc[r] = "get_or_set_param" THEN openCursors
                      ELSE cursor_exit(openCursors)
    /\ UNCHANGED <<req, resp, cnx_context, params, now, issued, changed,
                   started, openHandles>>

\* ------------------------------------------------------------ token service
\* Auth.validate_token: the payload is read without verification and the
\* secret of the database it names is asked for
validate_token(r) ==
    /\ pc[r] = "validate_token"
    /\ LET token == extract_token(req[r].header) IN
       IF ~token.wf
       THEN /\ Raise(r, "DecodeError")
            /\ UNCHANGED loc
       ELSE /\ call_get_or_set_param(r, token.payload.database, secret_key, "validated")
            /\ UNCHANGED exc
    /\ UNCHANGED <<req, resp, log, cnx_context, params, now, issued, changed,
                   started, openHandles, openCursors>>

\* OdooAuth._validate_token_credentials: security.check and check_signaling
validate_token_credentials(database, uid, password) ==
    /\ database \in Tenants
    /\ \E u \in Users : UidOf[u] = uid
    /\ password = GoodPassword

\* jwt.decode with the secret: the signature, then the expiry; then the
\* credentials in the payload. "ok" or the class of the exception raised.
decode(token, secret, time) ==
    IF token.sig # Sign(token.payload, secret) THEN "InvalidSignatureError"
    ELSE IF token.payload.exp <= time THEN "ExpiredSignatureError"
    ELSE IF ~validate_token_credentials(token.payload.database, token.payload.uid,
                                        token.payload.password)
    THEN "AccessDenied"
    ELSE "ok"

\* the superuser bound in place of the principal of the token
bind_superuser(context, database, uid, username) ==
    [context EXCEPT !.database = database, !.uid = 1, !.username = username]

\* authentication_handler: what is stored in cnx_context
bind(context, database, uid, username) ==
    [context EXCEPT !.database = database, !.uid = uid, !.username = username]

\* a handler that catches what validate_token raises and goes on
calls_next_anyway(verdict) == TRUE

\* authentication_handler goes on past validate_token only when it returned
calls_next(verdict) == verdict = "ok"

\* a wrapper that reports every failure of validate_token as a bad signature
raises_invalid(verdict) == "InvalidSignatureError"

\* authentication_handler has no try around validate_token: what it raises
\* leaves the wrapper as it is
raises(verdict) == verdict

\* a route declared without "@connection_handler": authentication_handler
\* wraps the handler itself
authentication_handler_f_undecorated == "handler"

\* "@authentication_handler @connection_handler def get_tables": the f that
\* authentication_handler wraps is the wrapper of connection_handler
authentication_handler_f == "connection_handler"

\* validate_token returns or raises; authentication_handler stores the
\* identity and calls the next stage
authentication_handler_validated(r) ==
    /\ pc[r] = "validated"
    /\ LET token == extract_token(req[r].header)
           secret == get_secret_key(token.payload.database, loc[r].value)
           verdict == decode(token, secret, now)
       IN /\ log' = [log EXCEPT ![r].verdict = verdict, ![r].verifiedAt = now]
          /\ IF calls_next(verdict)
             THEN /\ cnx_context' = [cnx_context EXCEPT ![r] =
                        bind(@, token.payload.database, token.payload.uid,
                             token.payload.username)]
                  /\ pc' = [pc EXCEPT ![r] = authentication_handler_f]
                  /\ UNCHANGED exc
             ELSE /\ Raise(r, raises(verdict))
                  /\ UNCHANGED cnx_context
    /\ UNCHANGED <<req, loc, resp, params, now, issued, changed,
                   started, openHandles, openCursors>>


\* --------------------------------------------------------- connection_handler
\* how far context establishment gets: Registry(database) or
\* registry.cursor() fail before a cursor exists, cr.connection and
\* create_engine after
Establishments == {"ok", "no registry", "no cursor", "no engine"}

\* a registry taken from the database the host bound the request to
context_database_bound(context) == BoundDatabase

\* connection_handler: "database = cnx_context.database"
context_database(context) == context.database

\* Registry, cursor, connection, engine, then the call of the handler.
\* Nothing closes the cursor, on return or on an exception.
connection_handler(r) ==
    /\ pc[r] = "connection_handler"
    /\ \E outcome \in Establishments :
         /\ IF outcome = "no registry"
            THEN /\ log' = [log EXCEPT ![r].established = outcome]
                 /\ UNCHANGED <<cnx_context, openHandles>>
            ELSE IF outcome = "no cursor"
            THEN /\ cnx_context' = [cnx_context EXCEPT ![r].registry =
                                        context_database(cnx_context[r])]
                 /\ log' = [log EXCEPT ![r].established = outcome]
                 /\ UNCHANGED openHandles
            ELSE /\ cnx_context' = [cnx_context EXCEPT ![r].registry =
                                        context_database(cnx_context[r]),
                                                       ![r].cr = "open"]
                 /\ openHandles' = openHandles + 1
                 /\ log' = [log EXCEPT ![r].contexts = @ + 1,
                                       ![r].established = outcome]
         /\ IF outcome = "ok"
            THEN /\ pc' = [pc EXCEPT ![r] = "handler"]
                 /\ UNCHANGED exc
            ELSE Raise(r, "OperationalError")
    /\ UNCHANGED <<req, loc, resp, params, now, issued, changed, started, openCursors>>

\* ------------------------------------------------------------------ handlers
\* what the mapping engine can raise
EngineRaises == {"EngineError"} \cup EngineChained

\* _orm_function: api.Environment(cnx_context.cr, cnx_context.uid, {})
orm_function(context) ==
    [cr |-> context.cr, database |-> context.registry, uid |-> context.uid]

\* a handler calls operation op of the engine and makes its result the
\* response, or the engine raises
call_engine(r, op, result) ==
    /\ \/ Return(r, [status |-> 200, body |-> result, error |-> NoResp.error,
                     token |-> Malformed])
       \/ /\ \E e \in EngineRaises : Raise(r, e)
          /\ UNCHANGED <<resp, loc>>
    /\ log' = [log EXCEPT ![r].handlerCalls = @ + 1, ![r].engineCalls = @ + 1,
                          ![r].op = [op EXCEPT !.env = orm_function(cnx_context[r])]]

\* a handler raises e before it has called the engine
reject(r, e) ==
    /\ Raise(r, e)
    /\ log' = [log EXCEPT ![r].handlerCalls = @ + 1]
    /\ UNCHANGED <<resp, loc>>

\* get_tables: one call of the engine, and its result as the response
get_tables(r) ==
    /\ pc[r] = "handler"
    /\ req[r].route = "tables"
    /\ call_engine(r, Op("get_tables", None), "tables")
    /\ UNCHANGED <<req, cnx_context, params, now, issued, changed,
                   started, openHandles, openCursors>>

\* get_count and get_table: one call of the engine each
get_count(r) ==
    /\ pc[r] = "handler"
    /\ req[r].route = "count"
    /\ call_engine(r, Op("get_count", get(req[r].query, "h")), "count")
    /\ UNCHANGED <<req, cnx_context, params, now, issued, changed,
                   started, openHandles, openCursors>>

get_table(r) ==
    /\ pc[r] = "handler"
    /\ req[r].route = "table"
    /\ call_engine(r, Op("get_table_as_csv", get(req[r].query, "h")), "table csv")
    /\ UNCHANGED <<req, cnx_context, params, now, issued, changed,
                   started, openHandles, openCursors>>

\* get_header: "assert style_param in [None, '', 'csv', 'json']"
get_header_style_accepted(style) == style \in {None, "", "csv", "json"}

get_header(r) ==
    /\ pc[r] = "handler"
    /\ req[r].route = "header"
    /\ LET style == get(req[r].query, "style")
           h == get(req[r].query, "h")
       IN
       IF ~get_header_style_accepted(style) THEN reject(r, "AssertionError")
       ELSE IF style = "csv"
       THEN call_engine(r, Op("get_header_csv", h), "header csv")
       ELSE call_engine(r, Op("get_header_json", h), "header json")
    /\ UNCHANGED <<req, cnx_context, params, now, issued, changed,
                   started, openHandles, openCursors>>

\* ------------------------------------------------- parsing of parameters
\* int(query.get('skiprows', 0)): the texts int accepts, and their value
is_int_text(text) == text \in {"0", "1"}
int_of_text(text) == IF text = "1" THEN 1 ELSE 0
skiprows_of(query) ==
    IF "skiprows" \in DOMAIN query THEN int_of_text(query["skiprows"]) ELSE 0

\* str.capitalize: first character upper case, the rest lower case
capitalize(text) ==
    CASE text \in {"true", "TRUE", "True"} -> "True"
      [] text \in {"false", "FALSE", "False"} -> "False"
      [] text = "yes" -> "Yes"
      [] OTHER -> text

\* eval(text): the texts that are Python expressions with a value here
\* (any other name is a NameError), and bool of the value
eval_has_value(text) == text \in {"True", "False", "0", "1"}
bool_eval(text) == text \in {"True", "1"}

\* query.get(name, 'false')
flag_text(query, name) == get_or(query, name, "false")

\* bool(eval(query.get(name, 'false').capitalize())) raises, and its value
flag_raises(query, name) == ~eval_has_value(capitalize(flag_text(query, name)))
flag(query, name) == bool_eval(capitalize(flag_text(query, name)))
flags_of(query) == [f \in FlagNames |-> flag(query, f)]

\* "if not header"
no_header(h) == h \in {None, ""}

\* body.split('\n', 1)[0]
first_line(body) == IF body = NoBody THEN "" ELSE Head(body)

\* --------------------------------------------------------------- post_table
\* "assert style in ['diff', 'sql', 'result', 'full']"
style_accepted(style) == style \in {"diff", "sql", "result", "full"}

\* a handler that passes an empty body on
body_missing_ignored(body) == FALSE

\* "assert body"
body_missing(body) == body = NoBody

\* the branch of post_table a style takes: the operation of the engine
post_table_operation(style) ==
    CASE style = "diff" -> "post_table_get_diff"
      [] style = "sql" -> "post_table_get_sql"
      [] style = "summary" -> "post_table_get_summary"
      [] style = "full" -> "post_table_get_full_report"
      [] OTHER -> "none"

\* what the response is made of
post_table_result(style) ==
    CASE style = "diff" -> "three reports csv"
      [] style = "sql" -> "report csv"
      [] style = "summary" -> "summary"
      [] OTHER -> "full report json"

\* the exception post_table raises before any call of the engine, in the
\* order of its statements, or None
post_table_raises(query, body) ==
    IF "skiprows" \in DOMAIN query /\ ~is_int_text(query["skiprows"]) THEN "ValueError"
    ELSE IF ~style_accepted(get(query, "style")) THEN "AssertionError"
    ELSE IF \E f \in FlagNames : flag_raises(query, f) THEN "NameError"
    ELSE IF body_missing(body) THEN "AssertionError"
    ELSE IF post_table_operation(get(query, "style")) = "none" THEN "Exception"
    ELSE None

post_table(r) ==
    /\ pc[r] = "handler"
    /\ req[r].route = "post_table"
    /\ LET query == req[r].query
           body == req[r].body
           raised == post_table_raises(query, body)
           style == get(query, "style")
           h == get(query, "h")
       IN IF raised # None THEN reject(r, raised)
          ELSE call_engine(r,
                 PostOp(post_table_operation(style),
                        IF no_header(h) THEN first_line(body) ELSE h,
                        skiprows_of(query), flags_of(query), <<>>, <<body>>,
                        IF style = "full" THEN get(query, "context") ELSE None,
                        None),
                 post_table_result(style))
    /\ UNCHANGED <<req, cnx_context, params, now, issued, changed,
                   started, openHandles, openCursors>>

\* -------------------------------------------------------------- post_tables
\* tables.split(',')
split(text) ==
    CASE text = "a,b" -> <<"a", "b">>
      [] OTHER -> <<text>>

RECURSIVE table_files(_)
\* the files whose filename is not 'substitutions.csv'
table_files(files) ==
    IF files = <<>> THEN <<>>
    ELSE IF Head(files).filename # "substitutions.csv"
         THEN <<Head(files)>> \o table_files(Tail(files))
         ELSE table_files(Tail(files))

\* files.get('substitutions'): the upload sent as form field substitutions
substitutions_of(files) ==
    IF \E i \in 1..Len(files) : files[i].field = "substitutions"
    THEN LET i == CHOOSE i \in 1..Len(files) :
                    /\ files[i].field = "substitutions"
                    /\ \A j \in 1..(i - 1) : files[j].field # "substitutions"
         IN files[i].content
    ELSE None

post_tables_raises(query, files) ==
    IF \E f \in FlagNames : flag_raises(query, f) THEN "NameError"
    ELSE IF get(query, "t") = None THEN "AssertionError"
    ELSE IF Len(split(query["t"])) # Len(table_files(files)) THEN "AssertionError"
    ELSE None

post_tables(r) ==
    /\ pc[r] = "handler"
    /\ req[r].route = "post_tables"
    /\ LET query == req[r].query
           files == req[r].files
           raised == post_tables_raises(query, files)
           kept == table_files(files)
       IN IF raised # None THEN reject(r, raised)
          ELSE call_engine(r,
                 PostOp("post_multiple_tables_get_full_report", get(query, "h"), 1,
                        flags_of(query), split(query["t"]),
                        [i \in 1..Len(kept) |-> kept[i].content],
                        [i \in 1..Len(kept) |-> kept[i].filename],
                        substitutions_of(files)),
                 "full report json")
    /\ UNCHANGED <<req, cnx_context, params, now, issued, changed,
                   started, openHandles, openCursors>>

\* --------------------------------------------------------------- POST /auth
\* an authenticate that takes the database from the form only
resolve_database_posted(post) == post.database

\* authenticate: the database of the form, else the one the request is
\* bound to (request.env.cr.dbname), else none
resolve_database(post) ==
    IF post.database # "" THEN post.database ELSE post.dbname

\* a verification that looks the login up and does not check the password
validate_submitted_credentials_unchecked(database, username, password) ==
    IF database \in Tenants /\ username \in Users THEN UidOf[username] ELSE 0

\* OdooAuth._validate_submitted_credentials: the uid, or 0 for AccessDenied
validate_submitted_credentials(database, username, password) ==
    IF database \in Tenants /\ username \in Users /\ password = GoodPassword
    THEN UidOf[username] ELSE 0

\* authenticate up to Auth.authenticate asking for the secret of the database
authenticate(r) ==
    /\ pc[r] = "authenticate"
    /\ LET post == req[r].post
           database == resolve_database(post)
           uid == validate_submitted_credentials(database, post.username, post.password)
       IN IF database = ""
          THEN /\ Raise(r, "Exception")
               /\ UNCHANGED <<loc, log>>
          ELSE IF uid = 0
          THEN /\ Raise(r, "AccessDenied")
               /\ log' = [log EXCEPT ![r].authCalls = @ + 1]
               /\ UNCHANGED loc
          ELSE /\ pc' = [pc EXCEPT ![r] = "get_or_set_param"]
               /\ loc' = [loc EXCEPT ![r] = [NoLoc EXCEPT !.database = database,
                             !.key = secret_key, !.ret = "create_token_lifetime",
                             !.uid = uid]]
               /\ log' = [log EXCEPT ![r].authCalls = @ + 1]
               /\ UNCHANGED exc
    /\ UNCHANGED <<req, resp, cnx_context, params, now, issued, changed,
                   started, openHandles, openCursors>>

\* the token service keeps the secret and asks for the lifetime
create_token_lifetime(r) ==
    /\ pc[r] = "create_token_lifetime"
    /\ pc' = [pc EXCEPT ![r] = "get_or_set_param"]
    /\ loc' = [loc EXCEPT ![r].secret = get_secret_key(loc[r].database, loc[r].value),
                          ![r].key = token_lifetime,
                          ![r].pending = Absent, ![r].ret = "create_token"]
    /\ UNCHANGED <<req, exc, resp, log, cnx_context, params, now, issued, changed,
                   started, openHandles, openCursors>>

\* the claims of a new token
token_payload(database, uid, username, password, lifetime) ==
    [database |-> database, uid |-> uid, username |-> username, password |-> password,
     exp |-> now + lifetime]

\* the token is signed and authenticate returns it
create_token(r) ==
    /\ pc[r] = "create_token"
    /\ LET post == req[r].post
           token == Encode(token_payload(loc[r].database, loc[r].uid, post.username,
                                  post.password,
                                         get_token_lifetime(loc[r].database, loc[r].value)),
                           loc[r].secret)
       IN /\ Return(r, [status |-> 200, body |-> "token", error |-> NoResp.error,
                        token |-> token])
          /\ issued' = issued \cup {[token |-> token, database |-> resolve_database(post),
                                     uid |-> UidOf[post.username], at |-> now]}
    /\ UNCHANGED <<req, log, cnx_context, params, now, changed,
                   started, openHandles, openCursors>>

\* -------------------------------------------------------------- environment
\* time passes. The clock is read only to stamp and to check tokens, so its
\* steps are counted from the first token on.
Tick ==
    /\ now < MaxTicks * TickStep
    /\ issued # {}
    /\ now' = now + TickStep
    /\ UNCHANGED <<pc, req, loc, exc, resp, log, cnx_context, params, issued, changed,
                   started, openHandles, openCursors>>

\* an administrator replaces the stored secret of a database by another
RotateSecret(t) ==
    /\ params[t][secret_key] # Absent
    /\ changed[t] = "no"
    /\ \E s \in Secrets \ {params[t][secret_key]} :
         params' = [params EXCEPT ![t][secret_key] = s]
    /\ changed' = [changed EXCEPT ![t] = "rotated"]
    /\ UNCHANGED <<pc, req, loc, exc, resp, log, cnx_context, now, issued,
                   started, openHandles, openCursors>>

Next ==
    \/ \E r \in Reqs : DispatchBearer(r)
    \/ \E r \in Reqs : DispatchAuth(r)
    \/ \E r \in Reqs : exception_handler_unwind(r)
    \/ \E r \in Reqs : exception_handler(r)
    \/ \E r \in Reqs : authentication_handler(r)
    \/ \E r \in Reqs : validate_token(r)
    \/ \E r \in Reqs : get_or_set_param(r)
    \/ \E r \in Reqs : set_param(r)
    \/ \E r \in Reqs : return_param(r)
    \/ \E r \in Reqs : authentication_handler_validated(r)
    \/ \E r \in Reqs : connection_handler(r)
    \/ \E r \in Reqs : get_tables(r)
    \/ \E r \in Reqs : authenticate(r)
    \/ \E r \in Reqs : create_token_lifetime(r)
    \/ \E r \in Reqs : create_token(r)
    \/ Tick
    \/ \E t \in Tenants : RotateSecret(t)

Spec == Init /\ [][Next]_vars

\* ----------------------------------------------- the handlers on their own
\* The handlers of the bearer routes, each started where connection_handler
\* calls it: the token of alice for BoundDatabase was accepted and the
\* cursor is open. The parameters of the request are drawn from the texts
\* below.
Styles == {None, "", "diff", "sql", "summary", "full", "result", "csv", "json"}
SkipRowsTexts == {None, "1", "x"}
FlagTexts == {"true", "TRUE", "false", "1", "0", "yes"}
HeaderTexts == {None, "id"}
Bodies == {NoBody, <<"id,name", "1,x">>}

\* the part of a query string that gives parameter name as text, or does not
\* give it
Given(name, text) == IF text = None THEN NoQuery ELSE name :> text

\* no flag given, one flag given, or all of them given as true
FlagQueries ==
    {NoQuery}
    \cup {Given(f, x) : f \in FlagNames, x \in FlagTexts}
    \cup {[f \in FlagNames |-> "true"]}

TableTexts == {None, "a", "a,b"}
File(field, filename) == [field |-> field, filename |-> filename, content |-> filename]
Uploads ==
    {<<>>,
     <<File("a", "a.csv")>>,
     <<File("a", "a.csv"), File("b", "b.csv")>>,
     <<File("a", "a.csv"), File("substitutions", "substitutions.csv")>>,
     <<File("a", "a.csv"), File("substitutions", "subst.csv")>>,
     <<File("a", "a.csv"), File("b", "substitutions.csv")>>}

HandlerToken ==
    Encode([database |-> BoundDatabase, uid |-> UidOf["alice"], username |-> "alice",
            password |-> GoodPassword, exp |-> DefaultLifetime], Provisioned[secret_key])

HandlerRequests ==
    {[NoReq EXCEPT !.route = "post_table", !.header = Bearer(HandlerToken),
                   !.query = fq @@ Given("style", st) @@ Given("skiprows", sk)
                                @@ Given("h", h)
                                @@ Given("context", IF st = "full" THEN "ctx" ELSE None),
                   !.body = b] :
        fq \in FlagQueries, st \in Styles, sk \in SkipRowsTexts, h \in HeaderTexts,
        b \in Bodies}
    \cup {[NoReq EXCEPT !.route = "post_tables", !.header = Bearer(HandlerToken),
                        !.query = fq @@ Given("t", t), !.files = u] :
        fq \in FlagQueries, t \in TableTexts, u \in Uploads}
    \cup {[NoReq EXCEPT !.route = rt, !.header = Bearer(HandlerToken),
                        !.query = Given("style", st) @@ Given("h", h)] :
        rt \in {"header"}, st \in Styles, h \in HeaderTexts}
    \cup {[NoReq EXCEPT !.route = rt, !.header = Bearer(HandlerToken),
                        !.query = Given("h", h)] :
        rt \in {"tables", "count", "table"}, h \in HeaderTexts}

\* the worker that serves the request
HandlerWorker == "r1"

HandlerInit ==
    /\ \E request \in HandlerRequests :
         req = [r \in Reqs |-> IF r = HandlerWorker THEN request ELSE NoReq]
    /\ pc = [r \in Reqs |-> IF r = HandlerWorker THEN "handler" ELSE "idle"]
    /\ loc = [r \in Reqs |-> NoLoc]
    /\ exc = [r \in Reqs |-> None]
    /\ resp = [r \in Reqs |-> NoResp]
    /\ log = [r \in Reqs |->
                IF r = HandlerWorker
                THEN [NoLog EXCEPT !.cursors = 1, !.tokenCalls = 1, !.verdict = "ok",
                                   !.secret = Provisioned[secret_key],
                                   !.stored = Provisioned[secret_key],
                                   !.found = "stored", !.contexts = 1,
                                   !.established = "ok"]
                ELSE NoLog]
    /\ cnx_context = [r \in Reqs |->
                IF r = HandlerWorker
                THEN [database |-> BoundDatabase, uid |-> UidOf["alice"],
                      username |-> "alice", registry |-> BoundDatabase, cr |-> "open"]
                ELSE NoContext]
    /\ params = [Fresh EXCEPT ![BoundDatabase] = Provisioned]
    /\ now = 0
    /\ issued = {[token |-> HandlerToken, database |-> BoundDatabase,
                  uid |-> UidOf["alice"], at |-> 0]}
    /\ changed = [t \in Tenants |-> "no"]
    /\ started = 1
    /\ openHandles = 1
    /\ openCursors = 0

HandlerNext ==
    \/ \E r \in Reqs : get_tables(r)
    \/ \E r \in Reqs : get_header(r)
    \/ \E r \in Reqs : get_count(r)
    \/ \E r \in Reqs : get_table(r)
    \/ \E r \in Reqs : post_table(r)
    \/ \E r \in Reqs : post_tables(r)
    \/ \E r \in Reqs : exception_handler_unwind(r)
    \/ \E r \in Reqs : exception_handler(r)

HandlerSpec == HandlerInit /\ [][HandlerNext]_vars

\* ------------------------------------------------- POST /auth on its own
\* Both workers serving POST /auth only.
AuthNext ==
    \/ \E r \in Reqs : DispatchAuth(r)
    \/ \E r \in Reqs : authenticate(r)
    \/ \E r \in Reqs : get_or_set_param(r)
    \/ \E r \in Reqs : set_param(r)
    \/ \E r \in Reqs : return_param(r)
    \/ \E r \in Reqs : create_token_lifetime(r)
    \/ \E r \in Reqs : create_token(r)
    \/ \E r \in Reqs : exception_handler(r)

AuthSpec == Init /\ [][AuthNext]_vars

\* ------------------------------------------ a database out of reach
\* The routes served while the database of a request may be out of reach
\* whenever get_or_set_param turns to it. The clock stands still and no
\* administrator is at work.
StoreNext ==
    \/ \E r \in Reqs : DispatchBearer(r)
    \/ \E r \in Reqs : DispatchAuth(r)
    \/ \E r \in Reqs : exception_handler_unwind(r)
    \/ \E r \in Reqs : exception_handler(r)
    \/ \E r \in Reqs : authentication_handler(r)
    \/ \E r \in Reqs : validate_token(r)
    \/ \E r \in Reqs : get_or_set_param(r)
    \/ \E r \in Reqs : get_or_set_param_unreachable(r)
    \/ \E r \in Reqs : set_param(r)
    \/ \E r \in Reqs : return_param(r)
    \/ \E r \in Reqs : authentication_handler_validated(r)
    \/ \E r \in Reqs : connection_handler(r)
    \/ \E r \in Reqs : get_tables(r)
    \/ \E r \in Reqs : authenticate(r)
    \/ \E r \in Reqs : create_token_lifetime(r)
    \/ \E r \in Reqs : create_token(r)

StoreSpec == Init /\ [][StoreNext]_vars

\* ------------------------------------------ bearer requests side by side
\* The bearer route served by both workers at once, started where every
\* database has its secret and alice holds a token of each.
SecretOf == [t \in Tenants |-> IF t = BoundDatabase THEN <<1>> ELSE <<2>>]

GrantOf(t) ==
    [token |-> Encode([database |-> t, uid |-> UidOf["alice"], username |-> "alice",
                       password |-> GoodPassword, exp |-> DefaultLifetime], SecretOf[t]),
     database |-> t, uid |-> UidOf["alice"], at |-> 0]

ConcurrentInit ==
    /\ pc = [r \in Reqs |-> "idle"]
    /\ req = [r \in Reqs |-> NoReq]
    /\ loc = [r \in Reqs |-> NoLoc]
    /\ exc = [r \in Reqs |-> None]
    /\ resp = [r \in Reqs |-> NoResp]
    /\ log = [r \in Reqs |-> NoLog]
    /\ cnx_context = [r \in Reqs |-> NoContext]
    /\ params = [t \in Tenants |-> [Provisioned EXCEPT ![secret_key] = SecretOf[t]]]
    /\ now = 0
    /\ issued = {GrantOf(t) : t \in Tenants}
    /\ changed = [t \in Tenants |-> "no"]
    /\ started = 0
    /\ openHandles = 0
    /\ openCursors = 0

ConcurrentNext ==
    \/ \E r \in Reqs : DispatchBearer(r)
    \/ \E r \in Reqs : authentication_handler(r)
    \/ \E r \in Reqs : validate_token(r)
    \/ \E r \in Reqs : get_or_set_param(r)
    \/ \E r \in Reqs : return_param(r)
    \/ \E r \in Reqs : authentication_handler_validated(r)
    \/ \E r \in Reqs : connection_handler(r)
    \/ \E r \in Reqs : get_tables(r)
    \/ \E r \in Reqs : exception_handler_unwind(r)
    \/ \E r \in Reqs : exception_handler(r)

ConcurrentSpec == ConcurrentInit /\ [][ConcurrentNext]_vars


\* ------------------------------------------------------------------- claims
BearerRoute(r) == req[r].route = "tables"
Done(r) == pc[r] = "done"
Quiet == \A r \in Reqs : pc[r] \in {"idle", "done"}
\* the header of r is "Bearer " and the token issued by grant g
Presents(r, g) == BearerRoute(r) /\ req[r].header = Bearer(g.token)

\* C1: the cursor connection_handler opens is released by the time the
\* request completes, on every exit path, and no such cursor is open once
\* all requests have completed.
C1_HandleReleased ==
    /\ \A r \in Reqs : Done(r) /\ log[r].contexts > 0 => cnx_context[r].cr # "open"
    /\ Quiet => openHandles = 0

\* C2: a request to a bearer route whose authentication fails has opened
\* no cursor on any database, not even to resolve the secret of the
\* database its unverified token names.
C2_NoCursorUnauthenticated ==
    \A r \in Reqs :
        BearerRoute(r) /\ pc[r] \in {"except", "done"} /\ log[r].verdict # "ok"
            => log[r].cursors = 0 /\ log[r].contexts = 0

\* C3: the handler of a bearer route runs only in a request whose header
\* was "Bearer <token>" and whose token validate_token accepted: signed with
\* the secret stored for its database when it was resolved, and not expired
\* at that time.
C3_HandlerOnlyAfterValidate ==
    \A r \in Reqs :
        BearerRoute(r) /\ (pc[r] = "handler" \/ log[r].handlerCalls > 0) =>
            LET token == req[r].header.token IN
            /\ req[r].header.present /\ req[r].header.scheme = "Bearer"
            /\ log[r].tokenCalls = 1
            /\ log[r].verdict = "ok"
            /\ token.wf
            /\ token.sig = Sign(token.payload, log[r].stored)
            /\ log[r].verifiedAt < token.payload.exp

C3_Witness ==
    \E r \in Reqs : BearerRoute(r) /\ Done(r) /\ log[r].handlerCalls = 1
                    /\ resp[r].status = 200

\* C4: a request to a bearer route without an Authorization header ends
\* with status 401 and the error object of exception_handler, and its
\* handler is not called.
C4_MissingHeader401 ==
    \A r \in Reqs :
        BearerRoute(r) /\ Done(r) /\ ~req[r].header.present =>
            /\ resp[r].status = 401
            /\ resp[r].body = "error_object"
            /\ log[r].handlerCalls = 0

\* C5: a request to a bearer route whose Authorization header is there but
\* does not start with "Bearer " ends with status 401; validate_token and
\* the handler are never called for it.
C5_WrongScheme401 ==
    \A r \in Reqs :
        BearerRoute(r) /\ req[r].header.present /\ req[r].header.scheme # "Bearer" =>
            /\ log[r].tokenCalls = 0
            /\ log[r].handlerCalls = 0
            /\ pc[r] \in {"authentication_handler", "done"}
            /\ Done(r) => resp[r].status = 401

C5_Witness ==
    \E r \in Reqs : BearerRoute(r) /\ Done(r) /\ req[r].header = BasicHeader
                    /\ resp[r].status = 401

\* C6: exception_handler answers 401 exactly for AccessDenied, a bad
\* signature and an expired token, and 400 for every other failure.
AuthFailures == {"AccessDenied", "InvalidSignatureError", "ExpiredSignatureError"}

C6_StatusMapping ==
    \A r \in Reqs :
        Done(r) /\ resp[r].body = "error_object" =>
            resp[r].status = IF resp[r].error.type \in AuthFailures THEN 401 ELSE 400

\* C7: every request that does not succeed is answered with the error
\* object of exception_handler, built once; no other stage makes an error
\* response of its own.
C7_SingleEnvelope ==
    \A r \in Reqs :
        Done(r) /\ resp[r].status # 200 =>
            /\ resp[r].body = "error_object"
            /\ log[r].envelopes = 1
            /\ ~log[r].ownBody

\* the database whose secret request r asks for
DatabaseOf(r) ==
    IF BearerRoute(r) THEN req[r].header.token.payload.database
    ELSE resolve_database(req[r].post)

\* C8: callers that resolve the secret of a database for the first time
\* (none stored yet) at the same time are all handed the same secret, the
\* one that ends up stored.
C8_OneSecret ==
    \A a, b \in Reqs :
        /\ a # b
        /\ log[a].first /\ log[b].first
        /\ log[a].secret # Absent /\ log[b].secret # Absent
        /\ DatabaseOf(a) = DatabaseOf(b)
        /\ changed[DatabaseOf(a)] # "rotated"
        => /\ log[a].secret = log[b].secret
           /\ log[a].secret = params[DatabaseOf(a)][secret_key]

\* C9: a token authenticate returned is accepted by validate_token while
\* the secret of its database is the one it was issued under and its
\* lifetime has not passed, and validate_token gives the database and the
\* uid the token was issued for.
C9_AuthenticateThenValidate ==
    \A r \in Reqs : \A g \in issued :
        /\ Presents(r, g)
        /\ log[r].verdict # "none"
        /\ changed[g.database] = "no"
        /\ log[r].verifiedAt < g.at + DefaultLifetime
        => /\ log[r].verdict = "ok"
           /\ cnx_context[r].database = g.database
           /\ cnx_context[r].uid = g.uid

C9_Witness ==
    \E r \in Reqs : \E g \in issued :
        /\ Presents(r, g) /\ pc[r] = "connection_handler" /\ log[r].verdict = "ok"
        /\ changed[g.database] = "no"
        /\ cnx_context[r].uid = UidOf["alice"]

\* C10: once the stored secret of a database differs from the one a token
\* was signed with, validate_token rejects the token with a bad signature
\* in every later request, the secret being read from the store at each
\* validation; a token of a database whose secret did not change is still
\* accepted within its lifetime, whatever happened to other databases.
C10_RotationInvalidates ==
    \A r \in Reqs : \A g \in issued :
        Presents(r, g) /\ log[r].verdict # "none" =>
            /\ log[r].stored # g.token.sig.key => log[r].verdict = "InvalidSignatureError"
            /\ (/\ changed[g.database] = "no"
                /\ \E t \in Tenants \ {g.database} : changed[t] = "rotated"
                /\ log[r].verifiedAt < g.token.payload.exp)
               => log[r].verdict = "ok"

C10_Witness ==
    \E r \in Reqs : \E g \in issued :
        /\ Presents(r, g)
        /\ changed[g.database] = "rotated"
        /\ log[r].verdict = "InvalidSignatureError"
        /\ Done(r)

C10_WitnessOther ==
    \E r \in Reqs : \E g \in issued :
        /\ Presents(r, g)
        /\ changed[g.database] = "no"
        /\ \E t \in Tenants \ {g.database} : changed[t] = "rotated"
        /\ log[r].verdict = "ok"

\* C11: a token presented at or after its expiry is rejected by
\* validate_token as expired, never as a bad signature, whatever the stored
\* secret of its database is by then, a rotated one included.
C11_ExpiredNeverInvalid ==
    \A r \in Reqs : \A g \in issued :
        /\ Presents(r, g)
        /\ log[r].verdict # "none"
        /\ g.token.payload.exp <= log[r].verifiedAt
        => log[r].verdict = "ExpiredSignatureError"

\* C11 as amended: a token presented at or after its expiry, while the
\* stored secret of its database is the one it was signed with, is rejected
\* as expired, and the expiry error is what the request is answered with.
C11_ExpiredUnchangedSecret ==
    \A r \in Reqs : \A g \in issued :
        /\ Presents(r, g)
        /\ log[r].verdict # "none"
        /\ g.token.payload.exp <= log[r].verifiedAt
        /\ log[r].stored = g.token.sig.key
        => /\ log[r].verdict = "ExpiredSignatureError"
           /\ pc[r] = "except" => exc[r] = "ExpiredSignatureError"
           /\ Done(r) => resp[r].error.type = "ExpiredSignatureError"
           /\ log[r].handlerCalls = 0

C11_Witness ==
    \E r \in Reqs : \E g \in issued :
        /\ Presents(r, g) /\ Done(r)
        /\ g.token.payload.exp <= log[r].verifiedAt
        /\ log[r].stored = g.token.sig.key
        /\ resp[r].error.type = "ExpiredSignatureError"

\* C12: when connection_handler fails in a request whose token was
\* accepted, before or after it has a cursor, the cursor it opened is
\* released, the handler is not called, and the request is answered 400
\* with the error object of the failure that occurred.
C12_EstablishFailureReleases ==
    \A r \in Reqs :
        /\ BearerRoute(r) /\ Done(r)
        /\ log[r].verdict = "ok"
        /\ log[r].established \in Establishments \ {"ok"}
        => /\ log[r].contexts > 0 => cnx_context[r].cr # "open"
           /\ log[r].handlerCalls = 0
           /\ resp[r].status = 400
           /\ resp[r].body = "error_object"
           /\ resp[r].error.type = "OperationalError"

\* the lifetime stored for a database, in seconds
LifetimeOf(database) == int(params[database][token_lifetime])

\* the failures that are raised behind the authentication stage
RaisedBehind == EngineRaises \cup {"OperationalError"}

\* C13: for a token issued at time t for a database with lifetime L whose
\* secret has not changed, a request to a bearer route presenting it before
\* t + L passes authentication and, when it reaches and leaves the handler,
\* is answered 200 with the handler's result; a request presenting it at or
\* after t + L is rejected as expired and never reaches the handler.
C13_LifetimeEndToEnd ==
    \A r \in Reqs : \A g \in issued :
        /\ Presents(r, g)
        /\ log[r].verdict # "none"
        /\ changed[g.database] = "no"
        => IF log[r].verifiedAt < g.at + LifetimeOf(g.database)
           THEN /\ log[r].verdict = "ok"
                /\ pc[r] \in {"connection_handler", "handler", "except", "done"}
                /\ pc[r] = "except" => exc[r] \in RaisedBehind
                /\ Done(r) =>
                     \/ /\ resp[r].status = 200 /\ resp[r].body = "tables"
                        /\ log[r].handlerCalls = 1
                     \/ log[r].caught \in RaisedBehind
           ELSE /\ log[r].verdict = "ExpiredSignatureError"
                /\ pc[r] \in {"except", "done"}
                /\ log[r].handlerCalls = 0 /\ log[r].contexts = 0
                /\ Done(r) => /\ resp[r].status # 200
                              /\ resp[r].error.type = "ExpiredSignatureError"

C13_Witness ==
    \E r \in Reqs : \E g \in issued :
        /\ Presents(r, g) /\ Done(r)
        /\ changed[g.database] = "no"
        /\ log[r].verifiedAt < g.at + LifetimeOf(g.database)
        /\ resp[r].status = 200 /\ resp[r].body = "tables"

C13_WitnessExpired ==
    \E r \in Reqs : \E g \in issued :
        /\ Presents(r, g) /\ Done(r)
        /\ changed[g.database] = "no"
        /\ log[r].verifiedAt >= g.at + LifetimeOf(g.database)
        /\ log[r].caught = "ExpiredSignatureError"

\* the cause chain of e ends within n steps
RECURSIVE Ends(_, _)
Ends(e, n) == IF Cause(e) = None THEN TRUE
              ELSE IF n = 0 THEN FALSE ELSE Ends(Cause(e), n - 1)

\* the exception at the origin of a cause chain that ends
RECURSIVE Origin(_)
Origin(e) == IF Cause(e) = None THEN e ELSE Origin(Cause(e))

\* C14: the error object and the status of a failed request are those of
\* the root cause, the exception at the origin of the cause chain of the
\* exception that was caught, not of the caught exception itself: an
\* AccessDenied wrapped once or twice in other errors is answered 401 with
\* type AccessDenied.
C14_RootCauseEnvelope ==
    \A r \in Reqs :
        Done(r) /\ log[r].caught # None /\ Ends(log[r].caught, Cardinality(ExcObjs)) =>
            LET root == Origin(log[r].caught) IN
            /\ resp[r].body = "error_object"
            /\ resp[r].error.type = TypeName(root)
            /\ resp[r].error.msg = Message(root)
            /\ resp[r].error.short = Head(Message(root))
            /\ resp[r].status = IF TypeName(root) \in {"AccessDenied", "InvalidSignatureError"}
                                THEN 401 ELSE 400
            /\ log[r].caught \in {EngineWrapped, EngineWrappedTwice} =>
                    resp[r].status = 401 /\ resp[r].error.type = "AccessDenied"

C14_Witness ==
    \E r \in Reqs :
        /\ Done(r) /\ log[r].caught = EngineWrappedTwice
        /\ resp[r].status = 401 /\ resp[r].error.type = "AccessDenied"

\* C15: the search for the root cause never moves to an exception it has
\* already moved on from: it stops at the first repeat, for a chain that
\* comes back to itself after one step and after two, so it ends.
C15_UnwindingStops ==
    \A r \in Reqs : pc[r] = "except" => e_of(r) \notin log[r].left

\* request r is inside get_or_set_param for key k of database t
Resolving(r, t, k) ==
    /\ pc[r] \in {"get_or_set_param", "set_param", "return_param"}
    /\ loc[r].database = t /\ loc[r].key = k

\* C16: a call of get_or_set_param that finds its key stored writes
\* nothing and returns the stored value; the stored value of a key is
\* written only by a call that found the key absent (or by an
\* administrator rotating the secret), and a database holds one value per
\* key.
C16_ResolveReadsOnceStored ==
    [][\A r \in Reqs : \A t \in Tenants : \A k \in Keys :
        /\ (Resolving(r, t, k) /\ pc[r] = "get_or_set_param" /\ pc'[r] # pc[r]
               /\ params[t][k] # Absent)
            => pc'[r] = "return_param" /\ params' = params
        /\ (Resolving(r, t, k) /\ pc[r] = "return_param" /\ pc'[r] # pc[r]
               /\ log[r].found = "stored")
            => /\ params' = params
               /\ loc[r].pending = Absent
               /\ loc'[r].value = params[t][k]
        /\ params'[t][k] # params[t][k]
            => \/ changed'[t] = "rotated" /\ changed[t] # "rotated" /\ k = secret_key
               \/ \E w \in Reqs : /\ Resolving(w, t, k) /\ pc[w] = "return_param"
                                   /\ pc'[w] # pc[w]
                                   /\ log[w].found = "absent"
                                   /\ params'[t][k] = loc[w].pending
        /\ DOMAIN params'[t] = Keys
    ]_vars

C16_Witness ==
    \E r \in Reqs :
        /\ pc[r] = "validated"
        /\ log[r].found = "stored"
        /\ loc[r].value = params[loc[r].database][secret_key]
        /\ \E o \in Reqs \ {r} : Done(o) /\ resp[o].body = "token"
                                  /\ DatabaseOf(o) = loc[r].database

\* the handler of request r has run
HandlerRan(r) == log[r].handlerCalls > 0

\* the parameters of a POST /tables/{name} other than style are in order:
\* skiprows a number if given, every flag given as true or false, a body
OthersInOrder(r) ==
    /\ get(req[r].query, "skiprows") \in {None, "0", "1"}
    /\ \A f \in FlagNames : get(req[r].query, f) \in {None, "true", "TRUE", "false"}
    /\ req[r].body # NoBody

\* C17: POST /tables/{name} with style diff, sql, summary or full and its
\* other parameters in order calls the engine operation of that style and
\* answers with its result: the three reports, the report, the summary,
\* the full report. No style of the four is rejected.
C17_StylesDispatched ==
    \A r \in Reqs :
        /\ req[r].route = "post_table" /\ HandlerRan(r)
        /\ get(req[r].query, "style") \in {"diff", "sql", "summary", "full"}
        /\ OthersInOrder(r)
        => LET style == get(req[r].query, "style") IN
           /\ log[r].engineCalls = 1
           /\ log[r].op.name =
                 CASE style = "diff" -> "post_table_get_diff"
                   [] style = "sql" -> "post_table_get_sql"
                   [] style = "summary" -> "post_table_get_summary"
                   [] style = "full" -> "post_table_get_full_report"
           /\ Done(r) /\ resp[r].status = 200 =>
                 resp[r].body =
                   CASE style = "diff" -> "three reports csv"
                     [] style = "sql" -> "report csv"
                     [] style = "summary" -> "summary"
                     [] style = "full" -> "full report json"

\* the uploads of a request that are table payloads, counted
PayloadCount(files) ==
    Cardinality({i \in 1..Len(files) : files[i].filename # "substitutions.csv"})

\* the names given in t, counted
NameCount(t) == IF t = "a,b" THEN 2 ELSE 1

\* the parameters of request r are not valid for its route: a style the
\* route does not have, no body, or not one upload per table name
InvalidParameters(r) ==
    \/ /\ req[r].route = "post_table"
       /\ \/ get(req[r].query, "style") \notin {"diff", "sql", "summary", "full"}
          \/ req[r].body = NoBody
    \/ /\ req[r].route = "header"
       /\ get(req[r].query, "style") \notin {None, "", "json", "csv"}
    \/ /\ req[r].route = "post_tables"
       /\ \/ get(req[r].query, "t") = None
          \/ NameCount(req[r].query["t"]) # PayloadCount(req[r].files)

\* what a handler raises for parameters it does not accept
ValidationErrors == {"AssertionError", "ValueError", "NameError", "Exception"}

\* C18: a handler that has returned a response has called exactly one
\* operation of the engine; a handler given a style its route does not
\* have, no body, or not one upload per table name has called none, and
\* that request is answered 400 with the error object of exception_handler.
C18_OneEngineCall ==
    \A r \in Reqs :
        HandlerRan(r) =>
            /\ log[r].handlerCalls = 1
            /\ log[r].engineCalls <= 1
            /\ Done(r) /\ resp[r].status = 200 =>
                   log[r].engineCalls = 1 /\ log[r].op.name # "none"
            /\ InvalidParameters(r) =>
                   /\ log[r].engineCalls = 0
                   /\ log[r].op = NoOp
                   /\ \/ pc[r] = "except" /\ exc[r] \in ValidationErrors
                      \/ /\ Done(r)
                         /\ resp[r].status = 400
                         /\ resp[r].body = "error_object"
                         /\ resp[r].error.type \in ValidationErrors
                         /\ log[r].envelopes = 1

C18_Witness ==
    \E r \in Reqs :
        /\ req[r].route = "post_table" /\ Done(r)
        /\ get(req[r].query, "style") = "diff" /\ req[r].body = NoBody
        /\ log[r].engineCalls = 0
        /\ resp[r].status = 400 /\ resp[r].error.type = "AssertionError"

C18_WitnessReturned ==
    \E r \in Reqs :
        /\ req[r].route = "post_tables" /\ Done(r)
        /\ resp[r].status = 200 /\ log[r].engineCalls = 1

AuthRoute(r) == req[r].route = "auth"

\* the credentials posted in request r are those of a user of its database
CredentialsGood(r) ==
    /\ resolve_database(req[r].post) \in Tenants
    /\ req[r].post.username \in Users
    /\ req[r].post.password = GoodPassword

\* C19: POST /auth returns a token only in a request whose credentials the
\* verification accepted; when it refuses them with AccessDenied the
\* request is answered 401 with the error object, returns no token, hands
\* none out, resolves no secret and opens no cursor for a request context.
C19_TokenOnlyIfVerified ==
    \A r \in Reqs :
        AuthRoute(r) =>
            /\ log[r].contexts = 0 /\ log[r].handlerCalls = 0
            /\ Done(r) /\ resp[r].status = 200 =>
                  /\ CredentialsGood(r)
                  /\ resp[r].body = "token"
                  /\ resp[r].token.payload.database = resolve_database(req[r].post)
                  /\ resp[r].token.payload.uid = UidOf[req[r].post.username]
            /\ ~CredentialsGood(r) /\ resolve_database(req[r].post) # "" =>
                  /\ pc[r] \in {"authenticate", "except", "done"}
                  /\ log[r].cursors = 0
                  /\ pc[r] = "except" => exc[r] = "AccessDenied"
                  /\ Done(r) => /\ resp[r].status = 401
                                /\ resp[r].body = "error_object"
                                /\ resp[r].error.type = "AccessDenied"
                                /\ resp[r].token = Malformed
                  /\ \A g \in issued : g.token.payload.password = GoodPassword

C19_Witness ==
    \E r \in Reqs :
        /\ AuthRoute(r) /\ Done(r)
        /\ req[r].post.password # GoodPassword
        /\ resp[r].status = 401 /\ resp[r].error.type = "AccessDenied"

\* request r is being served: dispatched and not yet answered
InFlight(r) == pc[r] \notin {"idle", "done"}

C21_StagesInOrder ==
    \A r \in Reqs :
        BearerRoute(r) =>
            /\ log[r].tokenCalls <= 1
            /\ log[r].contexts <= 1
            /\ log[r].handlerCalls <= 1
            /\ log[r].envelopes <= 1
            /\ pc[r] \in {"validate_token", "get_or_set_param", "set_param", "return_param",
                          "validated"}
                 => /\ log[r].tokenCalls = 1 /\ log[r].verdict = "none"
                    /\ log[r].established = "none" /\ log[r].contexts = 0
                    /\ log[r].handlerCalls = 0
            /\ (pc[r] = "connection_handler" \/ log[r].established # "none"
                    \/ log[r].contexts > 0)
                 => log[r].tokenCalls = 1 /\ log[r].verdict = "ok"
            /\ pc[r] = "connection_handler"
                 => log[r].established = "none" /\ log[r].contexts = 0
                    /\ log[r].handlerCalls = 0
            /\ (pc[r] = "handler" \/ log[r].handlerCalls > 0)
                 => log[r].established = "ok" /\ log[r].contexts = 1
            /\ pc[r] = "handler" => log[r].handlerCalls = 0
            /\ log[r].envelopes = 1 => Done(r)

C21_Witness ==
    \E r \in Reqs : \E o \in Reqs \ {r} :
        /\ BearerRoute(r) /\ Done(r)
        /\ log[r].tokenCalls = 1 /\ log[r].contexts = 1 /\ log[r].handlerCalls = 1
        /\ BearerRoute(o) /\ pc[o] = "handler" /\ log[o].contexts = 1

\* request r has found the database out of reach in get_or_set_param
Unreachable(r) == log[r].failed # None

\* C22: a request whose secret or lifetime resolution cannot reach the
\* config store does not try again: it is answered 400 with the error
\* object, its handler is not called, no cursor is opened for a request
\* context, and the request has persisted nothing for the database.
C22_UnreachableIsFatal ==
    \A r \in Reqs :
        Unreachable(r) =>
            /\ pc[r] \in {"except", "done"}
            /\ log[r].handlerCalls = 0
            /\ log[r].contexts = 0
            /\ Done(r) => /\ resp[r].status = 400
                          /\ resp[r].body = "error_object"
                          /\ resp[r].error.type = "OperationalError"
                          /\ log[r].envelopes = 1
            /\ log[r].persisted = {}

\* the same without the last part: all that C22 says but that nothing is
\* persisted
C22_UnreachableEnds ==
    \A r \in Reqs :
        Unreachable(r) =>
            /\ pc[r] \in {"except", "done"}
            /\ log[r].handlerCalls = 0
            /\ log[r].contexts = 0
            /\ Done(r) => /\ resp[r].status = 400
                          /\ resp[r].body = "error_object"
                          /\ resp[r].error.type = "OperationalError"
                          /\ log[r].envelopes = 1
            /\ log[r].failed = secret_key => log[r].persisted = {}

\* the texts that are 'true' and 'false' in some case
TrueTexts == {"true", "TRUE", "True"}
FalseTexts == {"false", "FALSE", "False"}

\* request r is to one of the routes that take the flags
PostRoute(r) == req[r].route \in {"post_table", "post_tables"}

\* C23: each flag passed to the engine is false when its parameter is
\* absent or 'false' in some case and true only when it is 'true' in some
\* case; a request with any other text for a flag is answered 400 and its
\* engine is not called.
C23_StrictFlags ==
    \A r \in Reqs : \A f \in FlagNames :
        PostRoute(r) =>
            LET text == get(req[r].query, f) IN
            /\ log[r].engineCalls > 0 =>
                  /\ text \in {None} \cup TrueTexts \cup FalseTexts
                  /\ log[r].op.flags[f] = (text \in TrueTexts)
            /\ text \notin {None} \cup TrueTexts \cup FalseTexts =>
                  /\ log[r].engineCalls = 0
                  /\ Done(r) => resp[r].status = 400 /\ resp[r].body = "error_object"

\* the uploads of a request other than the one sent as 'substitutions'
NotSubstitutions(file) == file.field # "substitutions"
TablePayloads(files) == SelectSeq(files, NotSubstitutions)

\* C24: post_tables calls the engine only when t names as many tables as
\* there are table payloads, and the contents it passes are exactly the
\* uploads other than the one sent as 'substitutions', whatever the
\* filename of that upload.
C24_BulkPayloads ==
    \A r \in Reqs :
        req[r].route = "post_tables" /\ log[r].engineCalls > 0 =>
            LET payloads == TablePayloads(req[r].files) IN
            /\ get(req[r].query, "t") # None
            /\ Len(log[r].op.tables) = Len(payloads)
            /\ log[r].op.contents = [i \in 1..Len(payloads) |-> payloads[i].content]

\* request r is a POST /auth whose form has no database
NoDatabasePosted(r) == AuthRoute(r) /\ req[r].post.database = ""

\* what can end a request for a token whose credentials were accepted
ResolverRaises == {"IntegrityError", "OperationalError"}

\* C25: POST /auth with no database in the form and none bound to the
\* request is answered 400 with the error object, and the credentials are
\* not verified, no secret is resolved and no token is issued; with no
\* database in the form and one bound to the request, what is resolved is
\* the secret of the bound database and the token returned is issued for it.
C25_AuthWithoutDatabase ==
    \A r \in Reqs :
        NoDatabasePosted(r) =>
            IF req[r].post.dbname = ""
            THEN /\ pc[r] \in {"authenticate", "except", "done"}
                 /\ log[r].authCalls = 0
                 /\ log[r].cursors = 0
                 /\ pc[r] = "except" => exc[r] = "Exception"
                 /\ Done(r) => /\ resp[r].status = 400
                               /\ resp[r].body = "error_object"
                               /\ resp[r].error.type = "Exception"
                               /\ resp[r].token = Malformed
                               /\ log[r].envelopes = 1
                 /\ \A g \in issued : g.database # ""
            ELSE /\ pc[r] \in {"get_or_set_param", "set_param", "return_param",
                               "create_token_lifetime", "create_token"}
                      => log[r].authCalls = 1 /\ loc[r].database = req[r].post.dbname
                 /\ pc[r] = "except" => log[r].authCalls = 1
                 /\ Done(r) =>
                      \/ /\ resp[r].status = 200 /\ resp[r].body = "token"
                         /\ resp[r].token.wf
                         /\ resp[r].token.payload.database = req[r].post.dbname
                         /\ resp[r].token.sig = Sign(resp[r].token.payload, log[r].secret)
                         /\ \E g \in issued : /\ g.token = resp[r].token
                                               /\ g.database = req[r].post.dbname
                      \/ /\ resp[r].status # 200 /\ resp[r].token = Malformed
                         /\ log[r].authCalls = 1
                         /\ log[r].caught \in ResolverRaises \cup {"AccessDenied"}

C25_Witness ==
    \E r \in Reqs :
        /\ NoDatabasePosted(r) /\ req[r].post.dbname = BoundDatabase /\ Done(r)
        /\ resp[r].status = 200
        /\ resp[r].token.payload.database = BoundDatabase

C25_WitnessNone ==
    \E r \in Reqs :
        /\ NoDatabasePosted(r) /\ req[r].post.dbname = "" /\ Done(r)
        /\ resp[r].status = 400 /\ resp[r].error.type = "Exception"

\* request r is inside the with block of get_or_set_param
InBlock(r) == pc[r] \in {"set_param", "return_param"}

\* C26: every cursor get_or_set_param opens is closed when it returns or
\* raises, whether it found the key or generated and stored a value: the
\* cursors of get_or_set_param that are open are those of the calls in
\* progress, and none is open once no request is being served.
C26_ResolverCursorsClosed ==
    /\ openCursors = Cardinality({r \in Reqs : InBlock(r)})
    /\ Quiet => openCursors = 0

C26_Witness ==
    \E r \in Reqs : \E o \in Reqs \ {r} :
        /\ Done(r) /\ log[r].cursors = 2
        /\ log[r].persisted = {secret_key, token_lifetime}
        /\ Done(o) /\ log[o].cursors > 0 /\ log[o].persisted = {}
        /\ log[o].found = "stored"
        /\ openCursors = 0

C26_WitnessRaised ==
    \E r \in Reqs :
        /\ Done(r) /\ log[r].cursors > 0
        /\ log[r].caught \in {"IntegrityError", "OperationalError"}
        /\ Quiet /\ openCursors = 0

====
